---- MODULE Spec2Model ----
(***************************************************************************)
(* Model of src/token_checker.py: the GristWatchdog countdown with its     *)
(* background thread, the HealthCheckHandler health flag, and the          *)
(* reconciliation loop of main() over the Wallets table.                   *)
(*                                                                         *)
(* Three threads take steps: "main" (the loop of main()), the watchdog     *)
(* thread (decrease_timeout_thread) and the environment (a user of the     *)
(* Grist document clearing a Value cell).  Code executed under             *)
(* GristWatchdog._lock is guarded by the lock variable; a blocking call    *)
(* (store read, store write, remote lookup, sleep) is a position of the    *)
(* thread at which it may stay for any number of steps of the others.      *)
(***************************************************************************)
EXTENDS Integers, Sequences, FiniteSets

(* ---- bounds ---- *)
NumItems == 2

(* ---- program constants ---- *)
Ceiling == 300
DecayStep == 10
WarnThreshold == 60
ExpiryThreshold == 1

(* ---- values ---- *)
None == "<None>"
Running == "<running>"

\* line 99 and line 264: sys.exit(1)
ExitFailure == "1"
\* line 297 writing an empty value
Sentinel_Empty == ""

Sentinel == "--"

Rows == 1..NumItems

Addresses == {None, "", "0xabc"}

LookupResults == { <<"1.5", "">>, <<"0", "No transactions found">> }

Descriptions == { "fetch_table failed", "check_balance failed", "update_records failed",
                  "find_settings failed", "none_value_wallet has no id" }

Amounts == { r[1] : r \in LookupResults }
Messages == { r[2] : r \in LookupResults }

\* line 297 without the "Error: " prefix
ErrorComment_NoPrefix(e) == e

ErrorComment(e) == "Error: " \o e

Values == {None, "", Sentinel} \cup Amounts
Comments == {None} \cup Messages \cup { ErrorComment(e) : e \in Descriptions }

Wallet == [Value : Values, Address : Addresses, Comment : Comments]

(* the local variable none_value_wallet of main(): unbound before its      *)
(* first assignment, then None or the row returned by find_none_value      *)
Unbound == [kind |-> "unbound", id |-> 0]
NoneWallet == [kind |-> "None", id |-> 0]
RowWallet(i) == [kind |-> "row", id |-> i]
WalletRefs == {Unbound, NoneWallet} \cup { RowWallet(i) : i \in Rows }

MainPcs == { "start", "exited", "reset", "settings", "find", "sleep_none", "mark",
             "lookup", "unmark", "update", "inner_except", "sentinel",
             "outer_except", "sleep_err" }

\* lines 258-261: os.getenv of the four required variables
RequiredEnv == { "GRIST_SERVER", "GRIST_DOC_ID", "GRIST_API_KEY", "ETHERSCAN_API_KEY" }

NotifyOutcomes == { "sent", "skipped", "failed" }

WdPcs == { "notstarted", "sleep", "tick", "notify", "exit", "dead" }

VARIABLES
    timeout,            \* GristWatchdog._timeout
    lock,               \* GristWatchdog._lock is held
    is_healthy,         \* HealthCheckHandler.is_healthy
    wdpc,               \* position of the watchdog thread
    notified,           \* outcomes of the calls of send_telegram_notification
    exit_status,        \* exit status of the process, Running while it lives
    env,                \* the required environment variables that are set
    mainpc,             \* position of main()
    none_value_wallet,  \* local of main()
    result,             \* locals value, msg of main()
    exc,                \* the exception e being handled in main()
    store               \* the Wallets table of the Grist document

vars == << timeout, lock, is_healthy, wdpc, notified, exit_status, env, mainpc,
           none_value_wallet, result, exc, store >>

wdVars == << timeout, lock, is_healthy, wdpc, notified >>
loopVars == << mainpc, none_value_wallet, result, exc, store >>

NoResult == << None, None >>

TypeOK ==
    /\ timeout \in Int
    /\ lock \in BOOLEAN
    /\ is_healthy \in BOOLEAN
    /\ wdpc \in WdPcs
    /\ notified \in Seq(NotifyOutcomes)
    /\ exit_status \in {Running, ExitFailure}
    /\ env \in SUBSET RequiredEnv
    /\ mainpc \in MainPcs
    /\ none_value_wallet \in WalletRefs
    /\ result \in LookupResults \cup {NoResult}
    /\ exc \in Descriptions \cup {None}
    /\ store \in [Rows -> Wallet]

(* ---- pure functions ---- *)

Max(a, b) == IF a >= b THEN a ELSE b

\* line 84: self._timeout = 300
reset_value == Ceiling

\* line 91 with the floor replaced by a wrap-around to the ceiling
Decrease_Wrap(t) == IF t - DecayStep <= 0 THEN Ceiling ELSE t - DecayStep

\* a sign slip in line 91
Decrease_Up(t) == t + DecayStep

\* line 91: max(0, self._timeout - 10)
Decrease(t) == Max(0, t - DecayStep)

\* lines 94 and 96
BelowWarning(t) == t < WarnThreshold
Expired_Early(t) == t < WarnThreshold
Expired(t) == t < ExpiryThreshold

\* line 262 without its last operand: ETHERSCAN_API_KEY is not checked
ConfigMissing_Partial(e) ==
    \/ "GRIST_SERVER" \notin e
    \/ "GRIST_DOC_ID" \notin e
    \/ "GRIST_API_KEY" \notin e

\* line 262: one of the four os.getenv results is None
ConfigMissing(e) ==
    \/ "GRIST_SERVER" \notin e
    \/ "GRIST_DOC_ID" \notin e
    \/ "GRIST_API_KEY" \notin e
    \/ "ETHERSCAN_API_KEY" \notin e

\* HealthCheckHandler.do_GET
do_GET(path, healthy) ==
    IF path = "/health"
    THEN IF healthy
         THEN [code |-> 200, status |-> "healthy", reason |-> None]
         ELSE [code |-> 503, status |-> "unhealthy",
               reason |-> "Request in progress taking too long"]
    ELSE [code |-> 404, status |-> None, reason |-> None]

\* GristWatchdog.get_timeout: a snapshot taken under the lock
get_timeout == timeout

\* the predicate of find_none_value, lines 243-244
Pending(w) ==
    /\ (w.Value = None \/ w.Value = "")
    /\ (w.Address # None /\ w.Address # "")

\* find_none_value over a fetched table: first match in table order
RECURSIVE ScanFrom(_, _)
ScanFrom(table, i) ==
    IF i > NumItems THEN NoneWallet
    ELSE IF Pending(table[i]) THEN RowWallet(i)
    ELSE ScanFrom(table, i + 1)

\* the scan of line 242 starting one row late
find_none_value_SkipFirst(table) == ScanFrom(table, 2)

find_none_value(table) == ScanFrom(table, 1)

\* GRIST.update(row_id, {"Value": v, "Comment": c})
update(table, row_id, v, c) ==
    [table EXCEPT ![row_id] = [@ EXCEPT !.Value = v, !.Comment = c]]

(* ---- initial state: the process has just been started ---- *)

InitialRows == { w \in Wallet : w.Value \in {None, ""} /\ w.Comment = None }

Init ==
    /\ timeout = Ceiling
    /\ lock = FALSE
    /\ is_healthy = TRUE
    /\ wdpc = "notstarted"
    /\ notified = << >>
    /\ exit_status = Running
    /\ env \in SUBSET RequiredEnv
    /\ mainpc = "start"
    /\ none_value_wallet = Unbound
    /\ result = NoResult
    /\ exc = None
    /\ store \in [Rows -> InitialRows]

Alive == exit_status = Running

(* ---- main(): startup, lines 258-274 ---- *)

\* lines 258-264: the configuration check on the environment; 268: GristWatchdog(logger), whose
\* __init__ sets and resets the timeout and starts the watchdog thread
Startup ==
    /\ Alive
    /\ mainpc = "start"
    /\ IF ~ConfigMissing(env)
         THEN /\ timeout' = reset_value
              /\ wdpc' = "sleep"
              /\ mainpc' = "reset"
              /\ UNCHANGED exit_status
         ELSE /\ exit_status' = ExitFailure
              /\ mainpc' = "exited"
              /\ UNCHANGED << timeout, wdpc >>
    /\ UNCHANGED << lock, is_healthy, notified, env, none_value_wallet, result, exc,
                    store >>

(* ---- GristWatchdog ---- *)

\* reset_timeout with a non-blocking acquire: the write is skipped when the
\* watchdog thread holds the lock
ResetTimeout_TryLock ==
    /\ Alive
    /\ mainpc = "reset"
    /\ timeout' = IF lock THEN timeout ELSE reset_value
    /\ mainpc' = "settings"
    /\ UNCHANGED << lock, is_healthy, wdpc, notified, exit_status, env,
                    none_value_wallet, result, exc, store >>

\* reset_timeout, lines 81-86, called at line 278
ResetTimeout ==
    /\ Alive
    /\ mainpc = "reset"
    /\ ~lock
    /\ timeout' = reset_value
    /\ mainpc' = "settings"
    /\ UNCHANGED << lock, is_healthy, wdpc, notified, exit_status, env,
                    none_value_wallet, result, exc, store >>

\* decrease_timeout_thread, lines 89-93: take the lock and decrement
TickDecrease ==
    /\ Alive
    /\ wdpc = "sleep"
    /\ ~lock
    /\ lock' = TRUE
    /\ timeout' = Decrease(timeout)
    /\ wdpc' = "tick"
    /\ UNCHANGED << is_healthy, notified, exit_status, env, loopVars >>

\* lines 94-96 and, when not expired, the release of the lock and line 100
TickCheck ==
    /\ Alive
    /\ wdpc = "tick"
    /\ is_healthy' = IF BelowWarning(timeout) THEN FALSE ELSE is_healthy
    /\ IF Expired(timeout)
       THEN /\ wdpc' = "notify"
            /\ UNCHANGED lock
       ELSE /\ wdpc' = "sleep"
            /\ lock' = FALSE
    /\ UNCHANGED << timeout, notified, exit_status, env, loopVars >>

\* line 98, send_telegram_notification (lines 63-78): sent, skipped for
\* missing credentials, or failed with the error swallowed
Notify ==
    /\ Alive
    /\ wdpc = "notify"
    /\ \E outcome \in NotifyOutcomes :
         notified' = Append(notified, outcome)
    /\ wdpc' = "exit"
    /\ UNCHANGED << timeout, lock, is_healthy, exit_status, env, loopVars >>

\* line 99: sys.exit(1) raises SystemExit in the watchdog thread; the with
\* block releases the lock and the thread ends.  The interpreter exits only
\* on SystemExit in the main thread, so exit_status is left alone.
ThreadExit ==
    /\ Alive
    /\ wdpc = "exit"
    /\ wdpc' = "dead"
    /\ lock' = FALSE
    /\ UNCHANGED << timeout, is_healthy, notified, exit_status, env, loopVars >>

(* ---- main(): the loop, lines 276-302 ---- *)

\* lines 279-282 placed inside the inner try: their error reaches line 297
ResolveSettings_InnerTry ==
    /\ Alive
    /\ mainpc = "settings"
    /\ \E ok \in BOOLEAN :
         IF ok
         THEN /\ mainpc' = "find"
              /\ UNCHANGED exc
         ELSE /\ exc' = "find_settings failed"
              /\ mainpc' = "inner_except"
    /\ UNCHANGED << wdVars, exit_status, env, none_value_wallet, result, store >>

\* lines 279-282: find_settings, find_chain, find_settings
ResolveSettings ==
    /\ Alive
    /\ mainpc = "settings"
    /\ \E ok \in BOOLEAN :
         IF ok
         THEN /\ mainpc' = "find"
              /\ UNCHANGED exc
         ELSE /\ exc' = "find_settings failed"
              /\ mainpc' = "outer_except"
    /\ UNCHANGED << wdVars, exit_status, env, none_value_wallet, result, store >>

\* lines 284-285: find_none_value(grist); fetch_table may raise, and then the
\* assignment to none_value_wallet does not happen
FindNoneValue ==
    /\ Alive
    /\ mainpc = "find"
    /\ \E ok \in BOOLEAN :
         IF ok
         THEN /\ none_value_wallet' = find_none_value(store)
              /\ mainpc' = IF none_value_wallet'.kind = "None"
                           THEN "sleep_none" ELSE "mark"
              /\ UNCHANGED exc
         ELSE /\ exc' = "fetch_table failed"
              /\ mainpc' = "inner_except"
              /\ UNCHANGED none_value_wallet
    /\ UNCHANGED << wdVars, exit_status, env, result, store >>

\* lines 286-288 followed by line 279: the next pass starts past line 278
SleepNone_SkipReset ==
    /\ Alive
    /\ mainpc = "sleep_none"
    /\ mainpc' = "settings"
    /\ UNCHANGED << wdVars, exit_status, env, none_value_wallet, result, exc, store >>

\* lines 286-288: sleep 10s and continue
SleepNone ==
    /\ Alive
    /\ mainpc = "sleep_none"
    /\ mainpc' = "reset"
    /\ UNCHANGED << wdVars, exit_status, env, none_value_wallet, result, exc, store >>

\* line 291 left out
MarkBusy_Skipped ==
    /\ Alive
    /\ mainpc = "mark"
    /\ mainpc' = "lookup"
    /\ UNCHANGED << wdVars, exit_status, env, none_value_wallet, result, exc, store >>

\* line 291
MarkBusy ==
    /\ Alive
    /\ mainpc = "mark"
    /\ is_healthy' = FALSE
    /\ mainpc' = "lookup"
    /\ UNCHANGED << timeout, lock, wdpc, notified, exit_status, env,
                    none_value_wallet, result, exc, store >>

\* line 292: check_balance returns (value, msg) or raises
CheckBalance ==
    /\ Alive
    /\ mainpc = "lookup"
    /\ \/ \E r \in LookupResults :
            /\ result' = r
            /\ mainpc' = "unmark"
            /\ UNCHANGED exc
       \/ /\ exc' = "check_balance failed"
          /\ mainpc' = "inner_except"
          /\ UNCHANGED result
    /\ UNCHANGED << wdVars, exit_status, env, none_value_wallet, store >>

\* line 293
MarkIdle ==
    /\ Alive
    /\ mainpc = "unmark"
    /\ is_healthy' = TRUE
    /\ mainpc' = "update"
    /\ UNCHANGED << timeout, lock, wdpc, notified, exit_status, env,
                    none_value_wallet, result, exc, store >>

\* line 294: grist.update(none_value_wallet.id, {"Value": value, "Comment": msg})
WriteResult ==
    /\ Alive
    /\ mainpc = "update"
    /\ \E ok \in BOOLEAN :
         IF ok
         THEN /\ store' = update(store, none_value_wallet.id, result[1], result[2])
              /\ mainpc' = "reset"
              /\ UNCHANGED exc
         ELSE /\ exc' = "update_records failed"
              /\ mainpc' = "inner_except"
              /\ UNCHANGED store
    /\ result' = NoResult
    /\ UNCHANGED << wdVars, exit_status, env, none_value_wallet >>

\* line 296
InnerExcept ==
    /\ Alive
    /\ mainpc = "inner_except"
    /\ is_healthy' = TRUE
    /\ mainpc' = "sentinel"
    /\ UNCHANGED << timeout, lock, wdpc, notified, exit_status, env,
                    none_value_wallet, result, exc, store >>

\* lines 297-298 without the outer try of line 277: what the handler raises
\* leaves main() and ends the process with a traceback
WriteSentinel_Escapes ==
    /\ Alive
    /\ mainpc = "sentinel"
    /\ IF none_value_wallet.kind # "row"
       THEN /\ exc' = "none_value_wallet has no id"
            /\ mainpc' = "exited"
            /\ exit_status' = ExitFailure
            /\ UNCHANGED store
       ELSE \E ok \in BOOLEAN :
              IF ok
              THEN /\ store' = update(store, none_value_wallet.id,
                                      Sentinel, ErrorComment(exc))
                   /\ exc' = None
                   /\ mainpc' = "reset"
                   /\ UNCHANGED exit_status
              ELSE /\ exc' = "update_records failed"
                   /\ mainpc' = "exited"
                   /\ exit_status' = ExitFailure
                   /\ UNCHANGED store
    /\ result' = NoResult
    /\ UNCHANGED << wdVars, env, none_value_wallet >>

\* lines 297-298: grist.update(none_value_wallet.id, {"Value": "--", ...});
\* none_value_wallet is whatever the local holds: evaluating .id raises when
\* it is unbound or None, and update itself may raise; what is raised here
\* is the e of the outer handler (lines 299-301)
WriteSentinel ==
    /\ Alive
    /\ mainpc = "sentinel"
    /\ IF none_value_wallet.kind # "row"
       THEN /\ exc' = "none_value_wallet has no id"
            /\ mainpc' = "outer_except"
            /\ UNCHANGED store
       ELSE \E ok \in BOOLEAN :
              IF ok
              THEN /\ store' = update(store, none_value_wallet.id,
                                      Sentinel, ErrorComment(exc))
                   /\ exc' = None
                   /\ mainpc' = "reset"
              ELSE /\ exc' = "update_records failed"
                   /\ mainpc' = "outer_except"
                   /\ UNCHANGED store
    /\ result' = NoResult
    /\ UNCHANGED << wdVars, exit_status, env, none_value_wallet >>

\* line 300
OuterExcept ==
    /\ Alive
    /\ mainpc = "outer_except"
    /\ is_healthy' = TRUE
    /\ mainpc' = "sleep_err"
    /\ UNCHANGED << timeout, lock, wdpc, notified, exit_status, env,
                    none_value_wallet, result, exc, store >>

\* line 302; the handler's e goes out of scope
SleepError ==
    /\ Alive
    /\ mainpc = "sleep_err"
    /\ exc' = None
    /\ mainpc' = "reset"
    /\ UNCHANGED << wdVars, exit_status, env, none_value_wallet, result, store >>

(* ---- environment: a user of the document clears a written Value ---- *)

ExternalClear ==
    /\ Alive
    /\ \E i \in Rows :
         /\ store[i].Value \notin {None, ""}
         /\ store' = update(store, i, None, None)
    /\ UNCHANGED << wdVars, exit_status, env, mainpc, none_value_wallet, result, exc >>

WatchdogStep == TickDecrease \/ TickCheck \/ Notify \/ ThreadExit

Next ==
    \/ Startup
    \/ ResetTimeout
    \/ TickDecrease
    \/ TickCheck
    \/ Notify
    \/ ThreadExit
    \/ ResolveSettings
    \/ FindNoneValue
    \/ SleepNone
    \/ MarkBusy
    \/ CheckBalance
    \/ MarkIdle
    \/ WriteResult
    \/ InnerExcept
    \/ WriteSentinel
    \/ OuterExcept
    \/ SleepError
    \/ ExternalClear

Spec == Init /\ [][Next]_vars

\* the steps of main() that call nothing that can block for ever: taking a
\* free lock, setting the health flag, the two 10s sleeps, and line 297 when
\* evaluating none_value_wallet.id raises before any store call
LoopLocalStep ==
    ResetTimeout \/ MarkBusy \/ MarkIdle \/ InnerExcept \/ OuterExcept
        \/ SleepNone \/ SleepError
        \/ (none_value_wallet.kind # "row" /\ WriteSentinel)

\* both threads are scheduled: the watchdog thread takes its next step, and
\* main() takes a step that cannot block; a store call or a lookup may hang
FairSpec == Spec /\ WF_vars(WatchdogStep) /\ WF_vars(LoopLocalStep)

(* ======================= claims ======================= *)

HealthResponse == do_GET("/health", is_healthy)

\* C1: on watchdog expiry the whole process terminates and expiry is
\* terminal: once the expiry action has run, the loop of main() takes no
\* further step and remaining stays 0.
C1_ExpiryIsTerminal ==
    [][wdpc = "dead" => (mainpc' = mainpc /\ timeout' = 0)]_vars

\* C2 as stated: whichever of one reset_timeout() call and one concurrent
\* tick takes the lock first, remaining is the ceiling after both.
C2_ResetDominance ==
    [][ /\ (mainpc = "reset" /\ mainpc' = "settings" => timeout' = Ceiling)
        /\ (wdpc = "sleep" /\ wdpc' = "tick" /\ mainpc = "settings"
              /\ timeout = Ceiling => timeout' = Ceiling) ]_vars

\* C2 as amended: remaining is the ceiling when the reset takes the lock
\* after the tick, and the ceiling less one decay step when the tick takes
\* the lock after the reset; the reset is never lost.
C2_ResetNotLost ==
    [][ /\ (mainpc = "reset" /\ mainpc' = "settings" => timeout' = Ceiling)
        /\ (wdpc = "sleep" /\ wdpc' = "tick" /\ mainpc = "settings"
              /\ timeout = Ceiling => timeout' = Ceiling - DecayStep) ]_vars

C2_Witness ==
    mainpc = "settings" /\ wdpc = "tick" /\ timeout = Ceiling - DecayStep

\* C3: an item whose value the loop has written is not written again by any
\* later iteration; its row changes only when an external actor clears it.
C3_WrittenOnce ==
    [][ \A i \in Rows :
          (store[i].Value \notin {None, ""} /\ store'[i] # store[i])
             => store'[i].Value = None ]_vars

\* C4: after a lookup has completed, on the success path (line 294 is next)
\* and on the failure path (line 297 is next), health is what the watchdog
\* alone dictates: unhealthy exactly when remaining is below the threshold.
C4_HealthAfterLookup ==
    ( /\ \/ mainpc = "update"
         \/ mainpc = "sentinel" /\ exc = "check_balance failed"
      /\ wdpc # "tick" )
    => (is_healthy <=> ~BelowWarning(timeout))

\* C5: in every behaviour with a fair watchdog thread, once the watchdog has
\* been started, either the loop keeps producing resets for ever, or the
\* process has exited, or the watchdog expires and remaining stays at 0: no
\* stall of the loop goes uncaught, the first or a later one.
C5_EveryStallExpires ==
    \/ [](mainpc = "start")
    \/ []<><<ResetTimeout>>_vars
    \/ <>(exit_status # Running)
    \/ <>[](timeout = 0)

\* C6: the expiry action starts only on a tick that leaves remaining at 0,
\* every tick that leaves remaining at 0 starts it, and it runs at most once:
\* a single notification attempt, after which the watchdog thread is gone.
C6_ExpiryOnceAtZero ==
    [][ /\ (wdpc # "notify" /\ wdpc' = "notify"
              => wdpc = "tick" /\ timeout = 0 /\ notified = << >>)
        /\ (wdpc = "tick" /\ wdpc' = "sleep" => timeout > 0)
        /\ Len(notified') <= 1
        /\ (notified' # notified => wdpc = "notify" /\ timeout = 0)
        /\ (wdpc = "dead" => wdpc' = "dead") ]_vars

C6_Witness ==
    wdpc = "dead" /\ Len(notified) = 1 /\ timeout = 0

\* C7: Scenario 1.  remaining is the ceiling less 10 for every tick since the
\* last reset, so once the ticks of 240s without a reset have run, more than
\* 240 has been taken off the ceiling: health is then unhealthy with reason "watchdog-low"; and once the tick that leaves 0
\* has run (300s) the process has terminated, and not before.
C7_Scenario1 ==
    /\ (Ceiling - timeout > 240 /\ wdpc # "tick"
          => HealthResponse.code = 503 /\ HealthResponse.reason = "watchdog-low")
    /\ (wdpc = "dead" => exit_status = ExitFailure)
    /\ (exit_status = ExitFailure => mainpc = "exited" \/ timeout = 0)

\* C8: 0 <= remaining <= ceiling in every reachable state, and so for every
\* snapshot get_timeout returns.
C8_RemainingInRange ==
    /\ 0 <= timeout /\ timeout <= Ceiling
    /\ 0 <= get_timeout /\ get_timeout <= Ceiling

C8_Witness ==
    timeout = 0 /\ mainpc = "settings"

\* C9: health is unhealthy only if remaining is below the warning threshold
\* or a lookup is in flight (from the busy mark of line 291 to the unmark of
\* line 293 or 296).
C9_HealthDerived ==
    ~is_healthy =>
        \/ BelowWarning(timeout)
        \/ mainpc \in {"lookup", "unmark", "inner_except"}

\* C10: while check_balance is in flight, health is unhealthy and
\* GET /health answers 503.
C10_BusyUnhealthy ==
    mainpc = "lookup" => (~is_healthy /\ HealthResponse.code = 503)

C10_Witness ==
    mainpc = "lookup" /\ timeout = Ceiling /\ HealthResponse.code = 503

\* C11: no error of an iteration escapes it.  An error of the settings
\* resolution goes to the outer handler, an error of the item selection, the
\* lookup or the success write-back to the inner handler, an error of the
\* sentinel write-back to the outer handler; each handler leads on to the
\* next pass, main() never leaves its loop, and the exit status is set only
\* by the startup configuration check or on the watchdog's expiry path.
C11_ErrorsContained ==
    [][ /\ (exit_status' # exit_status => mainpc = "start" \/ wdpc = "exit")
        /\ (mainpc # "start" => mainpc' # "exited")
        /\ (mainpc = "settings" /\ mainpc' \notin {"settings", "find"}
              => mainpc' = "outer_except")
        /\ (mainpc = "find" /\ mainpc' \notin {"find", "mark", "sleep_none"}
              => mainpc' = "inner_except")
        /\ (mainpc = "lookup" /\ mainpc' \notin {"lookup", "unmark"}
              => mainpc' = "inner_except")
        /\ (mainpc = "update" /\ mainpc' \notin {"update", "reset"}
              => mainpc' = "inner_except")
        /\ (mainpc = "inner_except" /\ mainpc' # mainpc => mainpc' = "sentinel")
        /\ (mainpc = "sentinel" /\ mainpc' \notin {"sentinel", "reset"}
              => mainpc' = "outer_except")
        /\ (mainpc = "outer_except" /\ mainpc' # mainpc => mainpc' = "sleep_err")
        /\ (mainpc = "sleep_err" /\ mainpc' # mainpc => mainpc' = "reset") ]_vars

\* the sentinel write-back raised, the outer handler has caught it and the
\* process lives on, about to sleep and start its next pass
C11_Witness ==
    /\ Alive
    /\ mainpc = "sleep_err"
    /\ exc = "update_records failed"

StartsWithError(c) == \E e \in Descriptions : c = "Error: " \o e

\* the step that ends line 297 in a pass whose lookup failed
SentinelStepAfterLookupFailure ==
    mainpc = "sentinel" /\ exc = "check_balance failed" /\ mainpc' # "sentinel"

\* C12 as stated: when the lookup for the selected item fails, "--" and a
\* comment beginning with "Error:" are persisted to that item and the next
\* pass begins without a backoff sleep.
C12_SentinelPersisted ==
    [][ SentinelStepAfterLookupFailure =>
          /\ store'[none_value_wallet.id].Value = "--"
          /\ StartsWithError(store'[none_value_wallet.id].Comment)
          /\ mainpc' = "reset" ]_vars

\* C12 as amended: that holds when the sentinel write-back succeeds, and then
\* no other row is touched; when the write-back itself raises, nothing is
\* persisted and the loop goes through the outer handler and its 10s sleep.
C12_SentinelPersistedIfWritten ==
    [][ /\ SentinelStepAfterLookupFailure =>
            \/ /\ store'[none_value_wallet.id].Value = "--"
               /\ StartsWithError(store'[none_value_wallet.id].Comment)
               /\ \A j \in Rows \ {none_value_wallet.id} : store'[j] = store[j]
               /\ mainpc' = "reset"
            \/ /\ store' = store
               /\ exc' = "update_records failed"
               /\ mainpc' = "outer_except"
        /\ (mainpc = "outer_except" /\ mainpc' # mainpc => mainpc' = "sleep_err") ]_vars

C12_Witness ==
    /\ mainpc = "reset"
    /\ none_value_wallet.kind = "row"
    /\ store[none_value_wallet.id].Value = "--"
    /\ store[none_value_wallet.id].Comment = "Error: check_balance failed"

\* the pass is one whose lookup has returned: line 294 is next, or its error
\* is being handled
LookupReturnedThisPass ==
    \/ mainpc = "update"
    \/ mainpc \in {"inner_except", "sentinel"} /\ exc = "update_records failed"

\* C13: in a pass whose lookup returned (amount, message), the pass that
\* ends after line 294 leaves value = amount and comment = message in the
\* selected item, and no step of the pass gives that item the sentinel "--".
C13_ResultPersisted ==
    [][ /\ (mainpc = "update" /\ mainpc' = "reset" =>
               /\ store'[none_value_wallet.id].Value = result[1]
               /\ store'[none_value_wallet.id].Comment = result[2])
        /\ (LookupReturnedThisPass =>
               store'[none_value_wallet.id].Value # "--") ]_vars

\* value unset (None or "") and address set (neither None nor "")
Selectable(w) ==
    /\ w.Value \in {None, ""}
    /\ w.Address \notin {None, ""}

\* C14: find_none_value returns the first row of the table, in table order,
\* whose value is unset and whose address is set, and None exactly when
\* there is no such row; the lookup only ever starts for a row whose value
\* is unset and whose address is set.
C14_FirstPending ==
    [][ /\ (mainpc = "find" /\ mainpc' \in {"mark", "sleep_none"} =>
               LET w == none_value_wallet' IN
               /\ w.kind \in {"row", "None"}
               /\ (w.kind = "row" =>
                     /\ Selectable(store[w.id])
                     /\ \A j \in 1..(w.id - 1) : ~Selectable(store[j]))
               /\ (w.kind = "None" <=> \A j \in Rows : ~Selectable(store[j]))
               /\ (mainpc' = "mark" <=> w.kind = "row"))
        /\ (mainpc' = "lookup" =>
               /\ none_value_wallet'.kind = "row"
               /\ Selectable(store'[none_value_wallet'.id])) ]_vars

\* the lookup runs for row 2 because row 1, whose value is set, was passed over
C14_Witness ==
    /\ mainpc = "lookup"
    /\ none_value_wallet = RowWallet(2)
    /\ store[1].Value = "1.5"
    /\ store[1].Address = "0xabc"

\* B is the first row other than A that the scan can select in table t
FirstOtherPending(t, A, B) ==
    /\ B \in Rows \ {A}
    /\ Selectable(t[B])
    /\ \A j \in Rows \ {A} : j < B => ~Selectable(t[j])

\* C15 as stated: once the lookup for item A has failed, the scan of the
\* table as that pass leaves it does not return A again but the first other
\* pending item B.
C15_FailedItemSkipped ==
    [][ SentinelStepAfterLookupFailure =>
          LET A == none_value_wallet.id
              next == find_none_value(store')
          IN /\ next # RowWallet(A)
             /\ \A B \in Rows : FirstOtherPending(store, A, B) => next = RowWallet(B) ]_vars

\* C15 as amended: that holds when the sentinel write-back for A succeeds;
\* when it raises, the table is unchanged and A is still pending, so the
\* next scan returns A again (or a row before A that is pending) and never
\* a row after A.
C15_FailedItemSkippedIfWritten ==
    [][ SentinelStepAfterLookupFailure =>
          LET A == none_value_wallet.id
              next == find_none_value(store')
          IN IF mainpc' = "reset"
             THEN /\ next # RowWallet(A)
                  /\ \A B \in Rows :
                        FirstOtherPending(store, A, B) => next = RowWallet(B)
                  /\ (\A B \in Rows : ~FirstOtherPending(store, A, B))
                        => next = NoneWallet
             ELSE /\ store' = store
                  /\ Selectable(store'[A])
                  /\ next.kind = "row"
                  /\ next.id <= A ]_vars

\* the lookup for row 1 failed and left the sentinel; row 2 is being looked up
C15_Witness ==
    /\ mainpc = "lookup"
    /\ none_value_wallet = RowWallet(2)
    /\ store[1].Value = "--"
    /\ store[1].Comment = "Error: check_balance failed"

\* C16: when find_settings or find_chain raises, the error goes to the outer
\* handler, main() writes no row while it handles it, sleeps the backoff of
\* line 302 and is then at the watchdog reset of the next pass.
C16_ResolutionErrorBackoff ==
    [][ /\ (mainpc = "settings" /\ mainpc' \notin {"settings", "find"} =>
               /\ mainpc' = "outer_except"
               /\ exc' = "find_settings failed"
               /\ store' = store)
        /\ (mainpc = "outer_except" /\ exc = "find_settings failed"
               /\ mainpc' # mainpc =>
               /\ mainpc' = "sleep_err"
               /\ exc' = exc
               /\ store' = store)
        /\ (mainpc = "sleep_err" /\ exc = "find_settings failed"
               /\ mainpc' # mainpc =>
               /\ mainpc' = "reset"
               /\ store' = store) ]_vars

C16_Witness ==
    mainpc = "sleep_err" /\ exc = "find_settings failed" /\ Alive

\* C17: with one of the four required variables unset, main() never enters
\* the loop, never touches the store and never starts the watchdog thread;
\* the only step it takes is the exit with status 1 of line 264.
C17_MissingConfigIsFatal ==
    env # RequiredEnv =>
        /\ mainpc \in {"start", "exited"}
        /\ wdpc = "notstarted"
        /\ none_value_wallet = Unbound
        /\ result = NoResult
        /\ exc = None
        /\ is_healthy
        /\ notified = << >>
        /\ (mainpc = "exited" <=> exit_status = ExitFailure)

C17_Witness ==
    /\ env = RequiredEnv \ {"ETHERSCAN_API_KEY"}
    /\ mainpc = "exited"
    /\ exit_status = ExitFailure

OtherPaths == { "/", "/healthz", "/health/", "" }

\* C18: GET /health answers 200 "healthy" when the flag is set and 503
\* "unhealthy" when it is not, any other path answers 404, and once a tick
\* has brought remaining below 60 (and has finished), GET /health answers 503.
C18_HealthEndpoint ==
    /\ do_GET("/health", TRUE).code = 200
    /\ do_GET("/health", TRUE).status = "healthy"
    /\ do_GET("/health", FALSE).code = 503
    /\ do_GET("/health", FALSE).status = "unhealthy"
    /\ \A p \in OtherPaths : \A h \in BOOLEAN : do_GET(p, h).code = 404
    /\ (BelowWarning(timeout) /\ wdpc \in {"sleep", "notify", "exit", "dead"}
          => HealthResponse.code = 503)

\* C19: on expiry the notification is attempted exactly once, each of its
\* outcomes (sent, skipped, failed) leads on to the exit of line 99, and that
\* exit ends the process with status 1.
C19_ExitAfterNotification ==
    [][ /\ (wdpc = "notify" /\ wdpc' # wdpc =>
               /\ wdpc' = "exit"
               /\ Len(notified') = Len(notified) + 1)
        /\ Len(notified') <= 1
        /\ (wdpc = "exit" /\ wdpc' # wdpc => exit_status' = ExitFailure) ]_vars

PassPcs == MainPcs \ {"start", "exited", "reset"}

\* C20: the body of a pass (settings resolution, store reads, lookup, sleeps)
\* is entered only through reset_timeout() of line 278, which puts remaining
\* at the ceiling; and every way a pass ends (the no-pending sleep, a
\* write-back, the backoff sleep of the outer handler) leads to that reset.
C20_ResetFirst ==
    [][ /\ (mainpc' \in PassPcs /\ mainpc \notin PassPcs =>
               /\ mainpc = "reset"
               /\ mainpc' = "settings"
               /\ timeout' = Ceiling
               /\ store' = store)
        /\ (mainpc' = "settings" /\ mainpc' # mainpc => mainpc = "reset")
        /\ (mainpc \in {"sleep_none", "sleep_err"} /\ mainpc' # mainpc =>
               mainpc' = "reset")
        /\ (mainpc = "update" /\ mainpc' # mainpc =>
               mainpc' \in {"reset", "inner_except"})
        /\ (mainpc = "sentinel" /\ mainpc' # mainpc =>
               mainpc' \in {"reset", "outer_except"}) ]_vars

C20_Witness ==
    /\ mainpc = "settings"
    /\ timeout = Ceiling
    /\ none_value_wallet = NoneWallet
    /\ ~is_healthy

\* C21: each tick sets remaining to max(0, remaining - 10), which is neither
\* above the old value nor below 0; remaining changes only on a tick or in
\* reset_timeout, and only reset_timeout (line 84) increases it.
C21_MonotonicDecay ==
    [][ /\ (wdpc = "sleep" /\ wdpc' = "tick" =>
               /\ timeout' = Max(0, timeout - DecayStep)
               /\ timeout' <= timeout
               /\ timeout' >= 0)
        /\ (timeout' # timeout =>
               \/ wdpc = "sleep" /\ wdpc' = "tick"
               \/ mainpc = "reset" /\ mainpc' = "settings")
        /\ (timeout' > timeout =>
               /\ mainpc = "reset" /\ mainpc' = "settings"
               /\ wdpc' = wdpc
               /\ timeout' = Ceiling) ]_vars

C21_Witness ==
    /\ wdpc = "tick"
    /\ lock
    /\ timeout = 0
    /\ mainpc = "reset"

\* the positions of main() whose next step is a set_health call (lines 291,
\* 293, 296, 300)
SetHealthPcs == { "mark", "unmark", "inner_except", "outer_except" }

\* C22: remaining and the health state are accessed only by a thread that
\* holds the lock.  A step that writes remaining takes the free lock, and
\* main() makes no set_health call while the watchdog thread is inside its
\* locked section (where it reads remaining and writes the health state).
C22_SharedGuarded ==
    [][ /\ (timeout' # timeout => ~lock)
        /\ (mainpc \in SetHealthPcs /\ mainpc' # mainpc => ~lock) ]_vars
====
